---- MODULE Spec2Model ----
(***************************************************************************)
(* The session / stream engine of the procurement chat page (src/unnamed/part_003):    *)
(* the React state of the Chat component, its event handlers, the async    *)
(* calls in flight with the values their closures captured, the delayed    *)
(* callbacks, and the line decoder of processStreamingResponse.            *)
(*                                                                         *)
(* Text is a sequence of one-character strings.  A JSON object is written  *)
(* "{" field* "}" where every field character stands for one key of the    *)
(* payload (see FieldChars); anything else does not parse.                 *)
(***************************************************************************)
EXTENDS Integers, Sequences, FiniteSets, TLC

\* ------------------------------------------------------------------ bounds
MaxLines == 3       \* lines of a stream drawn for the decoder specification
MaxSubmits == 3     \* submissions accepted over a behaviour of Spec
ResumeSubmits == 1  \* submissions accepted over a behaviour of SpecResume
MaxCalls == 2       \* remote calls in flight at the same time
MaxLoads == 1       \* session resumptions over a behaviour
MaxResets == 1      \* new chats started over a behaviour
OverlapSubmits == 2 \* submissions accepted over a behaviour of SpecOverlap
MaxElapsed == 3     \* milliseconds the clock advances over a behaviour of SpecStamps
MaxHydrations == 2  \* histories hydrated over a behaviour of SpecStamps
MaxRandoms == 2     \* Math.random() draws over a behaviour of SpecStamps
MaxEntries == 5     \* entries of the Timeline followed with id and timestamp

\* ----------------------------------------------------------- text helpers
NL == "\n"
SP == " "

RECURSIVE IndexOfNL(_, _)
\* position of the first line break of s at or after i, 0 if none
IndexOfNL(s, i) ==
    IF i > Len(s) THEN 0
    ELSE IF s[i] = NL THEN i ELSE IndexOfNL(s, i + 1)

RECURSIVE Split(_)
\* chunk.split('\n'): the pieces between line breaks; always at least one piece
Split(s) ==
    LET i == IndexOfNL(s, 1) IN
    IF i = 0 THEN <<s>>
    ELSE <<SubSeq(s, 1, i - 1)>> \o Split(SubSeq(s, i + 1, Len(s)))

RECURSIVE TrimLeft(_)
TrimLeft(s) ==
    IF s # <<>> /\ s[1] = SP THEN TrimLeft(Tail(s)) ELSE s

RECURSIVE TrimRight(_)
TrimRight(s) ==
    IF s # <<>> /\ s[Len(s)] = SP THEN TrimRight(SubSeq(s, 1, Len(s) - 1)) ELSE s

\* line.trim()
Trim(s) == TrimRight(TrimLeft(s))

\* s.startsWith(p)
StartsWith(s, p) == Len(s) >= Len(p) /\ SubSeq(s, 1, Len(p)) = p

\* s.slice(n)
Slice(s, n) == SubSeq(s, n + 1, Len(s))

DataPrefix == <<"d", "a", "t", "a", ":", " ">>
DonePrefix == <<"e", "v", "e", "n", "t", ":", " ", "d", "o", "n", "e">>

\* ------------------------------------------------------------ JSON payloads
\* One character per payload key:
\*   m  "message":"M1","step":"search"     n  "message":"M2"
\*   e  "message":""                       s  "session_id":"A",status,intent,
\*   t  "session_id":"B",status,intent,       intent_confidence
\*      intent_confidence
FieldChars == {"m", "n", "e", "s", "t"}

NoPayload ==
    [message |-> "undefined", step |-> "undefined", session_id |-> "undefined",
     status |-> "undefined", intent |-> "undefined", intent_confidence |-> "undefined"]

\* the keys one field character contributes; a later key overrides an earlier one
SetField(p, c) ==
    CASE c = "m" -> [p EXCEPT !.message = "M1", !.step = "search"]
      [] c = "n" -> [p EXCEPT !.message = "M2"]
      [] c = "e" -> [p EXCEPT !.message = ""]
      [] c = "s" -> [p EXCEPT !.session_id = "A", !.status = "active",
                              !.intent = "quote_request", !.intent_confidence = "0.92"]
      [] c = "t" -> [p EXCEPT !.session_id = "B", !.status = "processing",
                              !.intent = "order", !.intent_confidence = "0.5"]
      [] OTHER -> p

RECURSIVE Fields(_, _)
Fields(p, s) == IF s = <<>> THEN p ELSE Fields(SetField(p, s[1]), Tail(s))

\* JSON.parse(dataStr): [ok |-> TRUE, data |-> payload] or [ok |-> FALSE] when it throws
JSONParse(str) ==
    LET s == Trim(str) IN
    IF /\ Len(s) >= 2
       /\ s[1] = "{"
       /\ s[Len(s)] = "}"
       /\ \A i \in 2..(Len(s) - 1) : s[i] \in FieldChars
    THEN [ok |-> TRUE, data |-> Fields(NoPayload, SubSeq(s, 2, Len(s) - 1))]
    ELSE [ok |-> FALSE, data |-> NoPayload]

\* a JavaScript truthiness test of a string-valued field
Truthy(v) == v # "undefined" /\ v # ""

\* -------------------------------------------------------------- the decoder
\* What the body of the for loop does with one line: the events it acts on.
ProcessLine(line) ==
    LET trimmedLine == Trim(line) IN
    IF trimmedLine = <<>> THEN <<>>
    ELSE IF StartsWith(trimmedLine, DataPrefix)
         THEN LET r == JSONParse(Slice(trimmedLine, 6)) IN
              IF r.ok THEN <<[kind |-> "data", payload |-> r.data]>> ELSE <<>>
         ELSE IF StartsWith(trimmedLine, DonePrefix)
              THEN <<[kind |-> "doneSignal", payload |-> NoPayload]>>
              ELSE <<>>

RECURSIVE ProcessLinesAbort(_)
\* a parse failure that is not caught ends the loop
ProcessLinesAbort(lines) ==
    IF lines = <<>> THEN <<>>
    ELSE LET t == Trim(Head(lines)) IN
         IF StartsWith(t, DataPrefix) /\ ~JSONParse(Slice(t, 6)).ok THEN <<>>
         ELSE ProcessLine(Head(lines)) \o ProcessLinesAbort(Tail(lines))

RECURSIVE ProcessLines(_)
ProcessLines(lines) ==
    IF lines = <<>> THEN <<>>
    ELSE ProcessLine(Head(lines)) \o ProcessLines(Tail(lines))

\* One iteration of the while loop: the events of one decoded chunk.  Nothing
\* is carried over from one chunk to the next.
ProcessChunk(chunk) == ProcessLines(Split(chunk))

\* ------------------------------------------------------- streams and inputs
RECURSIVE Render(_)
\* the body the server writes for a list of lines: each line and a line break
Render(lines) ==
    IF lines = <<>> THEN <<>>
    ELSE Head(lines) \o <<NL>> \o Render(Tail(lines))

LineM == DataPrefix \o <<"{", "m", "}">>
LineN == DataPrefix \o <<"{", "n", "}">>
LineNS == DataPrefix \o <<"{", "n", "s", "}">>
LineS == DataPrefix \o <<"{", "s", "}">>
LineT == DataPrefix \o <<"{", "t", "}">>
LineBad == DataPrefix \o <<"{", "m">>
LineDone == DonePrefix
LineBlank == <<>>

\* response bodies the workflow service may send
Streams ==
    { <<>>,
      Render(<<LineM, LineNS, LineDone>>),
      Render(<<LineS, LineT>>) }

\* the short bodies sent where two calls are followed at the same time
ShortStreams == { <<>>, Render(<<LineDone>>) }

\* what the user may have typed in the textarea
Inputs == { <<"h", "i">> }

\* session ids a route /chat/:sessionId may be changed to while the page is mounted
RouteIds == { "B" }

\* getWorkflowHistory payloads (messages_log); "quote ready" is a message that
\* mentions one of the words supplier / quote / negotiat
HistoryLogs ==
    { <<>>,
      <<[step |-> "search", message |-> "found 8"]>>,
      <<[step |-> "search", message |-> "found 8"],
        [step |-> "quote", message |-> "quote ready"]>> }

\* getWorkflowState payloads
WorkflowStates ==
    { [status |-> "completed", intent |-> "quote_request", intent_confidence |-> "0.8"] }

\* content.toLowerCase().includes('supplier') || ...includes('quote') || ...includes('negotiat')
MentionsSupplier(content) == content \in {"quote ready"}

\* ------------------------------------------------------------------- state
VARIABLES
    messages,         \* part_003:26  the Timeline
    inputMessage,     \* part_003:36
    isLoading,        \* part_003:37
    showPostActions,  \* part_003:38
    actionMode,       \* part_003:39  "null" | "replay" | "supplier_response"
    workflowPhase,    \* part_003:40  "initial" | "awaiting_supplier"
    sessionInfo,      \* part_003:41
    calls,            \* handleSendMessage invocations in flight, with their closures
    loads,            \* loadSessionHistory invocations in flight
    doneTimers,       \* pending 1000 ms callbacks of the done handler, oldest first
    histTimers,       \* pending 500 ms callbacks of loadSessionHistory
    requests,         \* the remote workflow operations issued so far
    nloads,           \* session resumptions started so far
    nresets,          \* new chats started so far
    dLines,           \* decoder run: the lines of the body being delivered
    dPos,             \* decoder run: characters delivered so far
    dEvents,          \* decoder run: events decoded so far
    dMany,            \* decoder run: more than one chunk was delivered
    dMidLine,         \* decoder run: some chunk boundary fell inside a line
    sEntries,         \* stamped run: the Timeline, every entry with id and timestamp
    sNow,             \* stamped run: Date.now(), in ms since the page was mounted
    sHydrations,      \* stamped run: histories hydrated so far
    sRandoms          \* stamped run: Math.random() draws so far

engineVars ==
    <<messages, inputMessage, isLoading, showPostActions, actionMode, workflowPhase,
      sessionInfo, calls, loads, doneTimers, histTimers, requests,
      nloads, nresets>>

decoderVars == <<dLines, dPos, dEvents, dMany, dMidLine>>

stampVars == <<sEntries, sNow, sHydrations, sRandoms>>

vars == <<engineVars, decoderVars, stampVars>>

\* ----------------------------------------------------------------- entries
Greeting ==
    [role |-> "assistant", content |-> "Hello! I can help you with:",
     step |-> "undefined", type |-> "greeting"]

NewChatGreeting ==
    [role |-> "assistant", content |-> "Hello! I can help you with quotes",
     step |-> "undefined", type |-> "greeting"]

NewSession ==
    [id |-> "new", status |-> "active", intent |-> "null", confidence |-> "null"]

\* setMessages([message]) instead of setMessages(prev => [...prev, message])
AddAssistantMessageReplacing(msgs, content, step) ==
    <<[role |-> "assistant", content |-> content, step |-> step, type |-> "response"]>>

AddAssistantMessage(msgs, content, step) ==
    Append(msgs, [role |-> "assistant", content |-> content, step |-> step,
                  type |-> "response"])

AddSystemMessage(msgs, content, type) ==
    Append(msgs, [role |-> "system", content |-> content, step |-> "undefined",
                  type |-> type])

\* --------------------------------------------------------------- rendering
\* part_003:549  the input area (textarea, send button) is rendered
InputAreaShown ==
    ~showPostActions \/ actionMode # "null" \/ workflowPhase = "awaiting_supplier"

\* a quick-action panel that is rendered in every phase
PostActionsShownAnyPhase ==
    showPostActions /\ ~isLoading /\ actionMode = "null"

\* part_003:520  the quick-action panel is rendered
PostActionsShown ==
    showPostActions /\ ~isLoading /\ actionMode = "null" /\ workflowPhase = "initial"

\* part_003:552  the action-mode header with the cancel button is rendered
CancelShown ==
    InputAreaShown /\ (actionMode # "null" \/ workflowPhase = "awaiting_supplier")

\* --------------------------------------------------------- sequence helpers
Remove(seq, i) == SubSeq(seq, 1, i - 1) \o SubSeq(seq, i + 1, Len(seq))

IsPrefix(a, b) == Len(a) <= Len(b) /\ SubSeq(b, 1, Len(a)) = a

\* ------------------------------------------------------------ user typing
\* onChange of the textarea (disabled while isLoading)
TypeInput(t) ==
    /\ InputAreaShown
    /\ ~isLoading
    /\ t # inputMessage
    /\ inputMessage' = t
    /\ UNCHANGED <<messages, isLoading, showPostActions, actionMode,
                   workflowPhase, sessionInfo, calls, loads, doneTimers,
                   histTimers, requests, nloads, nresets>>
    /\ UNCHANGED <<decoderVars, stampVars>>

\* ------------------------------------------------------- handleSendMessage
\* the test for a new session comes first
SelectNewFirst(mode, phase, id) ==
    IF id = "new" THEN "start"
    ELSE IF mode = "replay" THEN "replay"
    ELSE "continue"

\* part_003:126-134  which remote operation a submission performs
SelectOperation(mode, phase, id) ==
    IF mode = "replay" THEN "replay"
    ELSE IF mode = "supplier_response" \/ phase = "awaiting_supplier" THEN "continue"
    ELSE IF id = "new" THEN "start"
    ELSE "continue"

\* actionMode || 'user_input'
UserEntryType(mode) == IF mode = "null" THEN "user_input" ELSE mode

\* The synchronous part of handleSendMessage, up to the await of the request:
\* the user entry is appended and the selected request is issued.  The call
\* keeps the actionMode, workflowPhase and sessionInfo of the render that
\* created its closures.
HandleSendMessage ==
    /\ InputAreaShown
    /\ Trim(inputMessage) # <<>>
    /\ ~isLoading
    /\ Len(calls) < MaxCalls
    /\ LET op == SelectOperation(actionMode, workflowPhase, sessionInfo.id) IN
       /\ messages' = Append(messages,
                             [role |-> "user", content |-> inputMessage,
                              step |-> "undefined", type |-> UserEntryType(actionMode)])
       /\ calls' = Append(calls,
                          [op |-> op, pc |-> "request", actionMode |-> actionMode,
                           workflowPhase |-> workflowPhase, sessionInfo |-> sessionInfo,
                           isNewWorkflow |-> (op = "start"), stream |-> <<>>, pos |-> 0,
                           abandoned |-> FALSE])
       /\ requests' = Append(requests, [op |-> op, session |-> sessionInfo.id])
    /\ inputMessage' = <<>>
    /\ isLoading' = TRUE
    /\ showPostActions' = FALSE
    /\ UNCHANGED <<actionMode, workflowPhase, sessionInfo, loads, doneTimers,
                   histTimers, nloads, nresets>>
    /\ UNCHANGED <<decoderVars, stampVars>>

\* a cleanup that leaves the in-flight flag set
FinallyKeepsLoading(i) ==
    /\ isLoading' = isLoading
    /\ actionMode' = "null"
    /\ calls' = Remove(calls, i)

\* a cleanup that forgets to clear the action mode
FinallyKeepsMode(i) ==
    /\ isLoading' = FALSE
    /\ actionMode' = actionMode
    /\ calls' = Remove(calls, i)

\* part_003:139-143  the finally block: the call i is over
Finally(i) ==
    /\ isLoading' = FALSE
    /\ actionMode' = "null"
    /\ calls' = Remove(calls, i)

\* the inner catch rethrows and the outer catch reports the failure again
FailureEntriesTwice(msgs, op) ==
    AddSystemMessage(AddSystemMessage(msgs, "Failed to " \o op \o " workflow", "error"),
                     "Sorry, there was an error processing your message.", "error")

\* part_003:157-161, 175-179, 195-199  the catch block of the three workflow
\* functions: the entries a failed call appends
FailureEntries(msgs, op) ==
    AddSystemMessage(msgs, "Failed to " \o op \o " workflow", "error")

\* the phase is forced before response.ok is looked at
PhaseBeforeOkCheck(op, ok, phase) ==
    IF op = "replay" THEN "awaiting_supplier" ELSE phase

\* the phase is left to the body of the response
PhaseNotForced(op, ok, phase) == phase

\* part_003:186-193  the phase after the response of operation op arrived
PhaseAfterResponse(op, ok, phase) ==
    IF op = "replay" /\ ok THEN "awaiting_supplier" ELSE phase

\* fetch rejects: the request fails before any response
ResponseReject(i) ==
    /\ i \in DOMAIN calls
    /\ calls[i].pc = "request"
    /\ messages' = FailureEntries(messages, calls[i].op)
    /\ workflowPhase' = PhaseAfterResponse(calls[i].op, FALSE, workflowPhase)
    /\ Finally(i)
    /\ UNCHANGED <<inputMessage, showPostActions, sessionInfo, loads,
                   doneTimers, histTimers, requests, nloads, nresets>>
    /\ UNCHANGED <<decoderVars, stampVars>>

\* the response arrives with a non-success status: response.text() is awaited
ResponseNotOk(i) ==
    /\ i \in DOMAIN calls
    /\ calls[i].pc = "request"
    /\ calls' = [calls EXCEPT ![i].pc = "text"]
    /\ workflowPhase' = PhaseAfterResponse(calls[i].op, FALSE, workflowPhase)
    /\ UNCHANGED <<messages, inputMessage, isLoading, showPostActions,
                   actionMode, sessionInfo, loads, doneTimers, histTimers,
                   requests, nloads, nresets>>
    /\ UNCHANGED <<decoderVars, stampVars>>

\* response.text() settles; the Error is thrown and caught
ErrorText(i) ==
    /\ i \in DOMAIN calls
    /\ calls[i].pc = "text"
    /\ messages' = FailureEntries(messages, calls[i].op)
    /\ Finally(i)
    /\ UNCHANGED <<inputMessage, showPostActions, workflowPhase, sessionInfo,
                   loads, doneTimers, histTimers, requests, nloads, nresets>>
    /\ UNCHANGED <<decoderVars, stampVars>>

\* the response arrives with a success status and body `stream`
ResponseOk(i, stream) ==
    /\ i \in DOMAIN calls
    /\ calls[i].pc = "request"
    /\ calls' = [calls EXCEPT ![i].pc = "read", ![i].stream = stream, ![i].pos = 0]
    /\ workflowPhase' = PhaseAfterResponse(calls[i].op, TRUE, workflowPhase)
    /\ UNCHANGED <<messages, inputMessage, isLoading, showPostActions,
                   actionMode, sessionInfo, loads, doneTimers, histTimers,
                   requests, nloads, nresets>>
    /\ UNCHANGED <<decoderVars, stampVars>>

\* ------------------------------------------------- processStreamingResponse
\* a handler that takes the id of the event and leaves status, intent and
\* confidence as they were
ApplyEventIdOnly(st, ev, call) ==
    IF ev.kind = "data"
    THEN LET d == ev.payload
             withMessage ==
                 IF Truthy(d.message)
                 THEN [st EXCEPT !.messages = AddAssistantMessage(@, d.message, d.step)]
                 ELSE st
         IN  IF Truthy(d.session_id) /\ call.isNewWorkflow
             THEN [withMessage EXCEPT !.sessionInfo.id = d.session_id]
             ELSE withMessage
    ELSE [st EXCEPT !.doneTimers =
             Append(@, [workflowPhase |-> call.workflowPhase, op |-> call.op])]

\* a handler that does not look at isNewWorkflow
ApplyEventAnyCall(st, ev, call) ==
    IF ev.kind = "data"
    THEN LET d == ev.payload
             withMessage ==
                 IF Truthy(d.message)
                 THEN [st EXCEPT !.messages = AddAssistantMessage(@, d.message, d.step)]
                 ELSE st
         IN  IF Truthy(d.session_id)
             THEN [withMessage EXCEPT
                      !.sessionInfo = [id |-> d.session_id, status |-> d.status,
                                       intent |-> d.intent,
                                       confidence |-> d.intent_confidence]]
             ELSE withMessage
    ELSE [st EXCEPT !.doneTimers =
             Append(@, [workflowPhase |-> call.workflowPhase, op |-> call.op])]

\* part_003:217-257  what one decoded event does, in a call whose closure holds
\* isNewWorkflow and workflowPhase.  st is the state the setters act on.
ApplyEvent(st, ev, call) ==
    IF ev.kind = "data"
    THEN LET d == ev.payload
             withMessage ==
                 IF Truthy(d.message)
                 THEN [st EXCEPT !.messages = AddAssistantMessage(@, d.message, d.step)]
                 ELSE st
         IN  IF Truthy(d.session_id) /\ call.isNewWorkflow
             THEN [withMessage EXCEPT
                      !.sessionInfo = [id |-> d.session_id, status |-> d.status,
                                       intent |-> d.intent,
                                       confidence |-> d.intent_confidence]]
             ELSE withMessage
    ELSE [st EXCEPT !.doneTimers =
             Append(@, [workflowPhase |-> call.workflowPhase, op |-> call.op])]

RECURSIVE ApplyEvents(_, _, _)
ApplyEvents(st, evs, call) ==
    IF evs = <<>> THEN st
    ELSE ApplyEvents(ApplyEvent(st, Head(evs), call), Tail(evs), call)

RECURSIVE LineEnds(_, _)
\* the positions of the line breaks of s after position from
LineEnds(s, from) ==
    LET i == IndexOfNL(s, from + 1) IN
    IF i = 0 THEN {} ELSE {i} \cup LineEnds(s, i)

\* The chunk boundaries explored for a body: after every line break, in the
\* middle of every line, and the end of the body.
ChunkEnds(stream) ==
    LET ends == LineEnds(stream, 0) \cup {Len(stream)}
        starts == {0} \cup LineEnds(stream, 0)
        mids == { (a + b) \div 2 :
                    <<a, b>> \in { p \in starts \X ends :
                                     /\ p[1] < p[2]
                                     /\ \A x \in ends : ~(p[1] < x /\ x < p[2]) } }
    IN  (ends \cup mids) \ {0}

\* the boundaries explored for each body
ChunkEndsOf == [s \in Streams \cup ShortStreams |-> ChunkEnds(s)]

\* the events one iteration of the while loop decodes from characters a+1..b
\* of each body
ChunkEvents ==
    [s \in Streams \cup ShortStreams |->
        [a \in 0..Len(s) |->
            [b \in a..Len(s) |-> ProcessChunk(SubSeq(s, a + 1, b))]]]

\* the length of the longest body
MaxBody == CHOOSE n \in { Len(s) : s \in Streams } : \A s \in Streams : Len(s) <= n

\* reader.read() resolves with the next n characters of the body
ReadChunk(i, n) ==
    /\ i \in DOMAIN calls
    /\ calls[i].pc = "read"
    /\ calls[i].pos + n \in ChunkEndsOf[calls[i].stream]
    /\ LET st == ApplyEvents([messages |-> messages, sessionInfo |-> sessionInfo,
                              doneTimers |-> doneTimers],
                             ChunkEvents[calls[i].stream][calls[i].pos][calls[i].pos + n],
                             calls[i])
       IN  /\ messages' = st.messages
           /\ sessionInfo' = st.sessionInfo
           /\ doneTimers' = st.doneTimers
    /\ calls' = [calls EXCEPT ![i].pos = @ + n]
    /\ UNCHANGED <<inputMessage, isLoading, showPostActions, actionMode,
                   workflowPhase, loads, histTimers, requests, nloads,
                   nresets>>
    /\ UNCHANGED <<decoderVars, stampVars>>

\* reader.read() resolves with done: the loop ends and the call returns
ReadDone(i) ==
    /\ i \in DOMAIN calls
    /\ calls[i].pc = "read"
    /\ calls[i].pos = Len(calls[i].stream)
    /\ Finally(i)
    /\ UNCHANGED <<messages, inputMessage, showPostActions, workflowPhase,
                   sessionInfo, loads, doneTimers, histTimers, requests,
                   nloads, nresets>>
    /\ UNCHANGED <<decoderVars, stampVars>>

\* a failure of the byte source that is swallowed: the call ends, no entry
ReadErrorSilent(i) ==
    /\ i \in DOMAIN calls
    /\ calls[i].pc = "read"
    /\ Finally(i)
    /\ UNCHANGED <<messages, inputMessage, showPostActions, workflowPhase,
                   sessionInfo, loads, doneTimers, histTimers, requests,
                   nloads, nresets>>
    /\ UNCHANGED <<decoderVars, stampVars>>

\* reader.read() rejects: the byte source fails while the body is read
ReadError(i) ==
    /\ i \in DOMAIN calls
    /\ calls[i].pc = "read"
    /\ messages' = FailureEntries(messages, calls[i].op)
    /\ Finally(i)
    /\ UNCHANGED <<inputMessage, showPostActions, workflowPhase, sessionInfo,
                   loads, doneTimers, histTimers, requests, nloads, nresets>>
    /\ UNCHANGED <<decoderVars, stampVars>>

\* a callback that offers the quick actions whatever the phase
DoneTimerAlwaysOffers ==
    /\ doneTimers # <<>>
    /\ doneTimers' = Tail(doneTimers)
    /\ showPostActions' = TRUE
    /\ UNCHANGED <<messages, inputMessage, isLoading, actionMode,
                   workflowPhase, sessionInfo, calls, loads, histTimers,
                   requests, nloads, nresets>>
    /\ UNCHANGED <<decoderVars, stampVars>>

\* part_003:247-256  the oldest pending callback of the done handler runs; it
\* reads the workflowPhase its closure captured
DoneTimer ==
    /\ doneTimers # <<>>
    /\ doneTimers' = Tail(doneTimers)
    /\ IF Head(doneTimers).workflowPhase = "awaiting_supplier"
       THEN actionMode' = "supplier_response" /\ UNCHANGED showPostActions
       ELSE showPostActions' = TRUE /\ UNCHANGED actionMode
    /\ UNCHANGED <<messages, inputMessage, isLoading, workflowPhase,
                   sessionInfo, calls, loads, histTimers, requests, nloads,
                   nresets>>
    /\ UNCHANGED <<decoderVars, stampVars>>

\* ------------------------------------------------------------ user actions
\* a new chat that leaves the phase of the previous session in place
StartNewChatKeepsPhase ==
    /\ nresets' = nresets + 1
    /\ messages' = <<NewChatGreeting>>
    /\ sessionInfo' = NewSession
    /\ showPostActions' = FALSE
    /\ actionMode' = "null"
    /\ calls' = [i \in DOMAIN calls |-> [calls[i] EXCEPT !.abandoned = TRUE]]
    /\ UNCHANGED <<inputMessage, isLoading, workflowPhase, loads, doneTimers,
                   histTimers, requests, nloads>>
    /\ UNCHANGED <<decoderVars, stampVars>>

\* part_003:292-309  the New Chat button of the header or of the quick-action panel
StartNewChat ==
    /\ nresets' = nresets + 1
    /\ messages' = <<NewChatGreeting>>
    /\ sessionInfo' = NewSession
    /\ showPostActions' = FALSE
    /\ actionMode' = "null"
    /\ workflowPhase' = "initial"
    /\ calls' = [i \in DOMAIN calls |-> [calls[i] EXCEPT !.abandoned = TRUE]]
    /\ UNCHANGED <<inputMessage, isLoading, loads, doneTimers, histTimers,
                   requests, nloads>>
    /\ UNCHANGED <<decoderVars, stampVars>>

\* part_003:311-316  the Replay Workflow button of the quick-action panel
HandleReplayWorkflow ==
    /\ PostActionsShown
    /\ showPostActions' = FALSE
    /\ actionMode' = "replay"
    /\ workflowPhase' = "initial"
    /\ UNCHANGED <<messages, inputMessage, isLoading, sessionInfo, calls,
                   loads, doneTimers, histTimers, requests, nloads, nresets>>
    /\ UNCHANGED <<decoderVars, stampVars>>

\* a cancel that clears the action mode whatever the phase
CancelActionClearsMode ==
    /\ CancelShown
    /\ actionMode' = "null"
    /\ showPostActions' = (showPostActions \/ workflowPhase # "awaiting_supplier")
    /\ inputMessage' = <<>>
    /\ UNCHANGED <<messages, isLoading, workflowPhase, sessionInfo, calls,
                   loads, doneTimers, histTimers, requests, nloads, nresets>>
    /\ UNCHANGED <<decoderVars, stampVars>>

\* part_003:318-326  the cancel button of the action-mode header
CancelAction ==
    /\ CancelShown
    /\ IF workflowPhase = "awaiting_supplier"
       THEN actionMode' = "supplier_response" /\ UNCHANGED showPostActions
       ELSE actionMode' = "null" /\ showPostActions' = TRUE
    /\ inputMessage' = <<>>
    /\ UNCHANGED <<messages, isLoading, workflowPhase, sessionInfo, calls,
                   loads, doneTimers, histTimers, requests, nloads, nresets>>
    /\ UNCHANGED <<decoderVars, stampVars>>

\* ------------------------------------------------------ loadSessionHistory
\* part_003:52-56  the route parameter changes to s while the page is mounted (a
\* history navigation or a link); the effect starts loadSessionHistory when the
\* new parameter names a session other than the current one
Navigate(s) ==
    /\ s # "new"
    /\ sessionInfo.id # s
    /\ isLoading' = TRUE
    /\ loads' = Append(loads, [pc |-> "history", sessionId |-> s])
    /\ nloads' = nloads + 1
    /\ UNCHANGED <<messages, inputMessage, showPostActions, actionMode,
                   workflowPhase, sessionInfo, calls, doneTimers, histTimers,
                   requests, nresets>>
    /\ UNCHANGED <<decoderVars, stampVars>>

RECURSIVE HistoryMessages(_)
\* part_003:68-75  messages_log.map(...)
HistoryMessages(log) ==
    IF log = <<>> THEN <<>>
    ELSE <<[role |-> "assistant", content |-> Head(log).message,
            step |-> Head(log).step, type |-> "response"]>>
         \o HistoryMessages(Tail(log))

\* part_003:65-89  getWorkflowHistory resolves with messages_log = log
HistoryArrives(j, log) ==
    /\ j \in DOMAIN loads
    /\ loads[j].pc = "history"
    /\ IF Len(log) > 0
       THEN /\ messages' = messages \o HistoryMessages(log)
            /\ workflowPhase' =
                   IF MentionsSupplier(log[Len(log)].message)
                   THEN "awaiting_supplier" ELSE workflowPhase
            /\ histTimers' = histTimers + 1
       ELSE UNCHANGED <<messages, workflowPhase, histTimers>>
    /\ loads' = [loads EXCEPT ![j].pc = "state"]
    /\ UNCHANGED <<inputMessage, isLoading, showPostActions, actionMode,
                   sessionInfo, calls, doneTimers, requests, nloads, nresets>>
    /\ UNCHANGED <<decoderVars, stampVars>>

\* part_003:89-97  getWorkflowState resolves
StateArrives(j, ws) ==
    /\ j \in DOMAIN loads
    /\ loads[j].pc = "state"
    /\ sessionInfo' = [id |-> loads[j].sessionId, status |-> ws.status,
                       intent |-> ws.intent, confidence |-> ws.intent_confidence]
    /\ isLoading' = FALSE
    /\ loads' = Remove(loads, j)
    /\ UNCHANGED <<messages, inputMessage, showPostActions, actionMode,
                   workflowPhase, calls, doneTimers, histTimers, requests,
                   nloads, nresets>>
    /\ UNCHANGED <<decoderVars, stampVars>>

\* part_003:99-104  either request of loadSessionHistory fails
LoadFails(j) ==
    /\ j \in DOMAIN loads
    /\ isLoading' = FALSE
    /\ loads' = Remove(loads, j)
    /\ UNCHANGED <<messages, inputMessage, showPostActions, actionMode,
                   workflowPhase, sessionInfo, calls, doneTimers, histTimers,
                   requests, nloads, nresets>>
    /\ UNCHANGED <<decoderVars, stampVars>>

\* part_003:86  a pending 500 ms callback of loadSessionHistory runs
HistTimer ==
    /\ histTimers > 0
    /\ histTimers' = histTimers - 1
    /\ showPostActions' = TRUE
    /\ UNCHANGED <<messages, inputMessage, isLoading, actionMode,
                   workflowPhase, sessionInfo, calls, loads, doneTimers,
                   requests, nloads, nresets>>
    /\ UNCHANGED <<decoderVars, stampVars>>

\* --------------------------------------------------- the decoder on its own
\* the body whose delivery the decoder specification follows
DStream == Render(dLines)

DecoderLines == { LineM, LineN, LineBad, LineDone, LineBlank }

LineLists == UNION { [1..k -> DecoderLines] : k \in 0..MaxLines }

\* part_003:206-211  one iteration of the while loop on the next n characters
DecoderRead(n) ==
    /\ n \in 1..(Len(DStream) - dPos)
    /\ dEvents' = dEvents \o ProcessChunk(SubSeq(DStream, dPos + 1, dPos + n))
    /\ dPos' = dPos + n
    /\ dMany' = (dPos > 0)
    /\ dMidLine' = (\/ dMidLine
                    \/ /\ dPos + n < Len(DStream)
                       /\ DStream[dPos + n] # NL
                       /\ DStream[dPos + n + 1] # NL)
    /\ UNCHANGED dLines
    /\ UNCHANGED <<engineVars, stampVars>>

\* ------------------------------------- the Timeline with ids and timestamps
\* part_003:72  one minute in milliseconds
MinuteMs == 60000

\* An id is written <<form, time, n>>: '1' is <<"1", 0, 0>>, `history_${index}`
\* is <<"history_", 0, index>>, Date.now().toString() is <<"now", t, 0>> and
\* Date.now().toString() + Math.random() is <<"now+random", t, r>>, where r
\* numbers the draw: Math.random() is taken never to return the same value twice.
\* A timestamp is a time in ms since the page was mounted.
Stamp(m, id, timestamp) == m @@ [id |-> id, timestamp |-> timestamp]

\* part_003:26-34  the greeting of the page mounted at time 0
GreetingStamped == Stamp(Greeting, <<"1", 0, 0>>, 0 - MinuteMs)

\* part_003:293-301  the greeting of a new chat started at time now
NewChatGreetingStamped(now) == Stamp(NewChatGreeting, <<"1", 0, 0>>, now)

\* the record's position counted from the start of the list
HistoryTimestampByIndex(length, index, now) == now - index * MinuteMs

\* part_003:72  new Date(Date.now() - (messages_log.length - index) * 60000)
HistoryTimestamp(length, index, now) == now - (length - index) * MinuteMs

\* part_003:68-75  messages_log.map(...): reads[k] is what Date.now() returns in
\* the callback of record k, whose index is k - 1
HistoryStamped(log, reads) ==
    [k \in 1..Len(log) |->
        Stamp(HistoryMessages(log)[k], <<"history_", 0, k - 1>>,
              HistoryTimestamp(Len(log), k - 1, reads[k]))]

\* the readings of a clock that does not go back, n of them from time from on
ClockReads(n, from) ==
    { r \in [1..n -> from..MaxElapsed] : \A k \in 1..(n - 1) : r[k] <= r[k + 1] }

\* the entries a remote call appends
StreamEntries ==
    { AddAssistantMessage(<<>>, "M1", "search")[1],
      AddSystemMessage(<<>>, "Failed to start workflow", "error")[1] }

StampsInit ==
    /\ sEntries = <<GreetingStamped>>
    /\ sNow = 0
    /\ sHydrations = 0
    /\ sRandoms = 0

\* a millisecond passes
Tick ==
    /\ sNow < MaxElapsed
    /\ sNow' = sNow + 1
    /\ UNCHANGED <<sEntries, sHydrations, sRandoms>>
    /\ UNCHANGED <<engineVars, decoderVars>>

\* part_003:110-118  the user entry of a submission.  The next handler runs at
\* least a millisecond later: a submission is followed by a remote call.
SubmitStamped(t) ==
    /\ Len(sEntries) < MaxEntries
    /\ sNow < MaxElapsed
    /\ sEntries' = Append(sEntries,
                          Stamp([role |-> "user", content |-> t, step |-> "undefined",
                                 type |-> UserEntryType("null")],
                                <<"now", sNow, 0>>, sNow))
    /\ sNow' = sNow + 1
    /\ UNCHANGED <<sHydrations, sRandoms>>
    /\ UNCHANGED <<engineVars, decoderVars>>

\* part_003:262-283  addAssistantMessage, addSystemMessage
AddStamped(m) ==
    /\ Len(sEntries) < MaxEntries
    /\ sRandoms < MaxRandoms
    /\ sEntries' = Append(sEntries, Stamp(m, <<"now+random", sNow, sRandoms>>, sNow))
    /\ sRandoms' = sRandoms + 1
    /\ UNCHANGED <<sNow, sHydrations>>
    /\ UNCHANGED <<engineVars, decoderVars>>

\* part_003:52-77  the route parameter names another session and its history
\* arrives: a non-empty messages_log is mapped and appended
HydrateStamped(log) ==
    /\ sHydrations < MaxHydrations
    /\ Len(sEntries) + Len(log) <= MaxEntries
    /\ \E reads \in ClockReads(Len(log), sNow) :
          /\ sEntries' = sEntries \o HistoryStamped(log, reads)
          /\ sNow' = IF log = <<>> THEN sNow ELSE reads[Len(log)]
    /\ sHydrations' = sHydrations + 1
    /\ UNCHANGED sRandoms
    /\ UNCHANGED <<engineVars, decoderVars>>

\* part_003:292-301  startNewChat replaces the Timeline by one greeting
ResetStamped ==
    /\ sEntries' = <<NewChatGreetingStamped(sNow)>>
    /\ UNCHANGED <<sNow, sHydrations, sRandoms>>
    /\ UNCHANGED <<engineVars, decoderVars>>

\* ------------------------------------------------------ the specifications
DecoderIdle ==
    /\ dLines = <<>>
    /\ dPos = 0
    /\ dEvents = <<>>
    /\ dMany = FALSE
    /\ dMidLine = FALSE

\* part_003:26-46  the state of a freshly mounted page, on /chat
EngineInit ==
    /\ messages = <<Greeting>>
    /\ inputMessage = <<>>
    /\ isLoading = FALSE
    /\ showPostActions = FALSE
    /\ actionMode = "null"
    /\ workflowPhase = "initial"
    /\ sessionInfo = NewSession
    /\ calls = <<>>
    /\ loads = <<>>
    /\ doneTimers = <<>>
    /\ histTimers = 0
    /\ requests = <<>>
    /\ nloads = 0
    /\ nresets = 0

Init == EngineInit /\ DecoderIdle /\ StampsInit

\* the steps of a remote exchange: typing, submissions, the remote call answered
\* with one of bodies, the delayed callbacks, replay
Exchange(maxSubmits, bodies) ==
    \/ \E t \in Inputs : TypeInput(t)
    \/ Len(requests) < maxSubmits /\ HandleSendMessage
    \/ \E i \in 1..MaxCalls : ResponseReject(i)
    \/ \E i \in 1..MaxCalls : ResponseNotOk(i)
    \/ \E i \in 1..MaxCalls : ErrorText(i)
    \/ \E i \in 1..MaxCalls : \E stream \in bodies : ResponseOk(i, stream)
    \/ \E i \in 1..MaxCalls : \E n \in 1..MaxBody : ReadChunk(i, n)
    \/ \E i \in 1..MaxCalls : ReadDone(i)
    \/ \E i \in 1..MaxCalls : ReadError(i)
    \/ DoneTimer
    \/ HandleReplayWorkflow

\* the steps of a conversation but the new chat: a remote exchange or a cancel
Calls(maxSubmits, bodies) ==
    \/ Exchange(maxSubmits, bodies)
    \/ CancelAction

\* the steps of a conversation, the new chat included
Turns(maxSubmits) ==
    \/ Calls(maxSubmits, Streams)
    \/ nresets < MaxResets /\ StartNewChat

\* the steps of loadSessionHistory once it has started
Loading ==
    \/ \E j \in 1..MaxLoads : \E log \in HistoryLogs : HistoryArrives(j, log)
    \/ \E j \in 1..MaxLoads : \E ws \in WorkflowStates : StateArrives(j, ws)
    \/ \E j \in 1..MaxLoads : LoadFails(j)
    \/ HistTimer

\* the steps of a session resumption
Resumption ==
    \/ \E s \in RouteIds : nloads < MaxLoads /\ Navigate(s)
    \/ Loading

Next == Turns(MaxSubmits)

\* conversations on a page whose route does not change
Spec == Init /\ [][Next]_vars

NextResume == Turns(ResumeSubmits) \/ Resumption

\* conversations interleaved with session resumptions
SpecResume == Init /\ [][NextResume]_vars

\* the route parameter of the URL the page is opened on: undefined on /chat
MountRoutes == {"undefined"} \cup RouteIds

\* part_003:53  the condition under which the effect starts loadSessionHistory,
\* for the route parameter and the sessionInfo.id of the render it belongs to
EffectLoads(route, id) == route # "undefined" /\ route # "new" /\ id # route

\* part_003:21-56  a page opened on /chat or /chat/:sessionId, once the effects
\* of its first render have run: sessionInfo.id is sessionId || 'new', and the
\* effect has started loadSessionHistory if its condition held
MountInit ==
    \E route \in MountRoutes :
        LET id == IF route = "undefined" THEN "new" ELSE route IN
        /\ messages = <<Greeting>>
        /\ inputMessage = <<>>
        /\ showPostActions = FALSE
        /\ actionMode = "null"
        /\ workflowPhase = "initial"
        /\ sessionInfo = [NewSession EXCEPT !.id = id]
        /\ calls = <<>>
        /\ doneTimers = <<>>
        /\ histTimers = 0
        /\ requests = <<>>
        /\ nresets = 0
        /\ isLoading = EffectLoads(route, id)
        /\ loads = IF EffectLoads(route, id)
                   THEN <<[pc |-> "history", sessionId |-> route]>> ELSE <<>>
        /\ nloads = IF EffectLoads(route, id) THEN 1 ELSE 0
        /\ DecoderIdle
        /\ StampsInit

\* pages opened on /chat or on the URL of a session
SpecMount == MountInit /\ [][NextResume]_vars

\* a session resumption that starts while a remote call is in flight
NextOverlap ==
    \/ Calls(OverlapSubmits, ShortStreams)
    \/ \E s \in RouteIds : calls # <<>> /\ nloads < MaxLoads /\ Navigate(s)
    \/ Loading

\* conversations with short bodies, resumed from another session during a call
SpecOverlap == Init /\ [][NextOverlap]_vars

NextUncancelled == Exchange(ResumeSubmits, Streams) \/ Resumption

\* one submission and one session resumption on a page where the user neither
\* cancels nor starts a new chat
SpecUncancelled == Init /\ [][NextUncancelled]_vars

NextStamps ==
    \/ Tick
    \/ \E t \in Inputs : SubmitStamped(t)
    \/ \E m \in StreamEntries : AddStamped(m)
    \/ \E log \in HistoryLogs : HydrateStamped(log)
    \/ ResetStamped

\* the ids and timestamps of the entries over submissions, stream entries,
\* hydrations and new chats
SpecStamps == Init /\ [][NextStamps]_vars

DecoderInit ==
    /\ EngineInit
    /\ dLines \in LineLists
    /\ dPos = 0
    /\ dEvents = <<>>
    /\ dMany = FALSE
    /\ dMidLine = FALSE
    /\ StampsInit

DecoderNext == \E n \in 1..(Len(DStream) - dPos) : DecoderRead(n)

\* the decoder fed one body in arbitrary chunks
SpecDecoder == DecoderInit /\ [][DecoderNext]_vars

\* ------------------------------------------------------------------ properties
Last(seq) == seq[Len(seq)]

\* the events one line of a body stands for, written out line by line
ExpectedOf(line) ==
    IF line = LineM
    THEN <<[kind |-> "data",
            payload |-> [NoPayload EXCEPT !.message = "M1", !.step = "search"]]>>
    ELSE IF line = LineN
    THEN <<[kind |-> "data", payload |-> [NoPayload EXCEPT !.message = "M2"]]>>
    ELSE IF line = LineDone
    THEN <<[kind |-> "doneSignal", payload |-> NoPayload]>>
    ELSE <<>>

RECURSIVE ExpectedEvents(_)
ExpectedEvents(lines) ==
    IF lines = <<>> THEN <<>>
    ELSE ExpectedOf(Head(lines)) \o ExpectedEvents(Tail(lines))

\* C1: whatever the chunk boundaries, a body that was delivered completely has
\* produced the events its delivery in one chunk produces.
C1_ChunkInvariance ==
    dPos = Len(DStream) => dEvents = ProcessChunk(DStream)

RECURSIVE SessionIdsOf(_)
\* the session ids the data events of evs carry, in order
SessionIdsOf(evs) ==
    IF evs = <<>> THEN <<>>
    ELSE (IF Head(evs).kind = "data" /\ Truthy(Head(evs).payload.session_id)
          THEN <<Head(evs).payload.session_id>> ELSE <<>>)
         \o SessionIdsOf(Tail(evs))

\* C3: while a Start call reads its body, the id is taken from the first data
\* event that carries a session_id and is never overwritten by a later one.
C3_SessionIdLatch ==
    [][\A i \in DOMAIN calls :
         (/\ i \in DOMAIN calls'
          /\ calls[i].op = "start"
          /\ calls[i].pc = "read"
          /\ calls'[i].pos > calls[i].pos)
         => LET chunk == SubSeq(calls[i].stream, calls[i].pos + 1, calls'[i].pos)
                sids == SessionIdsOf(ProcessChunk(chunk))
            IN  IF sessionInfo.id # "new" THEN sessionInfo' = sessionInfo
                ELSE IF sids = <<>> THEN sessionInfo'.id = "new"
                ELSE sessionInfo'.id = sids[1]]_vars

C5_AppendOnly ==
    [][IsPrefix(messages, messages')
       \/ (nresets' = nresets + 1 /\ messages' = <<NewChatGreeting>>)]_vars

\* a Timeline with a user entry, hydrated history and a failure entry
C5_Witness ==
    /\ nresets = 0
    /\ Len(messages) >= 5
    /\ \E k \in DOMAIN messages : messages[k].role = "user"
    /\ \E k \in DOMAIN messages : messages[k].content = "quote ready"
    /\ \E k \in DOMAIN messages : messages[k].role = "system"

\* the operation the priority order of the specification selects
ExpectedOperation ==
    CASE actionMode = "replay" -> "replay"
      [] actionMode # "replay"
         /\ (actionMode = "supplier_response" \/ workflowPhase = "awaiting_supplier")
         -> "continue"
      [] actionMode = "null" /\ workflowPhase = "initial" /\ sessionInfo.id = "new"
         -> "start"
      [] OTHER -> "continue"

\* C6: a step appends a user entry exactly when it issues a remote operation;
\* it then issues exactly one, the one the priority order selects, and no other
\* step (a failure included) issues any.
C6_OperationSelection ==
    [][/\ (Len(messages') = Len(messages) + 1 /\ Last(messages').role = "user")
              <=> requests' # requests
       /\ requests' # requests
              => requests' = Append(requests, [op |-> ExpectedOperation,
                                               session |-> sessionInfo.id])]_vars

\* all three operations were issued, the last after a failed call
C6_Witness ==
    /\ Len(requests) = 3
    /\ requests[1].op = "start"
    /\ requests[2].op = "replay"
    /\ requests[3].op = "continue"
    /\ \E k \in DOMAIN messages :
          /\ messages[k].role = "system"
          /\ k < Len(messages)
          /\ messages[k + 1].role = "user"

\* the step in which call i ends with a transport-level failure
TransportFailure(i) == ResponseReject(i) \/ ErrorText(i)

\* C7: when a call ends with a transport-level failure, SessionState and
\* ActionMode are what they were when the call was submitted.
C7_FailureLeavesAll ==
    [][\A i \in 1..MaxCalls :
         (TransportFailure(i) /\ ~calls[i].abandoned)
         => /\ sessionInfo' = calls[i].sessionInfo
            /\ workflowPhase' = calls[i].workflowPhase
            /\ actionMode' = calls[i].actionMode]_vars

\* C7 (amended): when a call ends with a transport-level failure, SessionState
\* is what it was when the call was submitted, and ActionMode is none.
C7_FailureLeavesSession ==
    [][\A i \in 1..MaxCalls :
         (TransportFailure(i) /\ ~calls[i].abandoned)
         => /\ sessionInfo' = calls[i].sessionInfo
            /\ workflowPhase' = calls[i].workflowPhase
            /\ actionMode' = "null"]_vars

\* a Replay submitted in replay mode has failed before any byte was read: the
\* session is the one the Start call set, the phase is initial, the mode none
C7_Witness ==
    /\ requests # <<>>
    /\ Last(requests).op = "replay"
    /\ calls = <<>>
    /\ Last(messages).role = "system"
    /\ Last(messages).content = "Failed to replay workflow"
    /\ sessionInfo.id = "A"
    /\ workflowPhase = "initial"
    /\ actionMode = "null"

\* C8: the step in which a Continue call fails before any byte of the body
\* appends one system entry of category error and nothing else, right after
\* the user entry of the submission.
C8_OneErrorEntry ==
    [][\A i \in 1..MaxCalls :
         (TransportFailure(i) /\ calls[i].op = "continue")
         => /\ Len(messages') = Len(messages) + 1
            /\ IsPrefix(messages, messages')
            /\ Last(messages').role = "system"
            /\ Last(messages').type = "error"
            /\ ~calls[i].abandoned => Last(messages).role = "user"]_vars

\* a Continue call has failed: the Timeline ends with the user entry and one
\* error entry
C8_Witness ==
    /\ requests # <<>>
    /\ Last(requests).op = "continue"
    /\ calls = <<>>
    /\ Len(messages) >= 3
    /\ Last(messages).role = "system"
    /\ Last(messages).type = "error"
    /\ messages[Len(messages) - 1].role = "user"

\* C9: the step in which the response of a Replay arrives with success sets the
\* phase to awaiting_supplier with nothing of the body consumed; the phase stays
\* so while the body is read and when the call ends, unless a new chat is
\* started meanwhile.
C9_ReplayForcesAwaiting ==
    /\ [](\A i \in DOMAIN calls :
            (calls[i].op = "replay" /\ calls[i].pc = "read" /\ ~calls[i].abandoned)
            => workflowPhase = "awaiting_supplier")
    /\ [][\A i \in DOMAIN calls :
            /\ (/\ calls[i].op = "replay"
                /\ calls[i].pc = "request"
                /\ i \in DOMAIN calls'
                /\ calls'[i].pc = "read")
               => (workflowPhase' = "awaiting_supplier" /\ calls'[i].pos = 0)
            /\ (/\ calls[i].op = "replay"
                /\ calls[i].pc = "read"
                /\ ~calls[i].abandoned
                /\ Len(calls') < Len(calls))
               => workflowPhase' = "awaiting_supplier"]_vars

\* a Replay submitted in phase initial has read its empty body to the end
C9_Witness ==
    \E i \in DOMAIN calls :
        /\ calls[i].op = "replay"
        /\ calls[i].workflowPhase = "initial"
        /\ calls[i].pc = "read"
        /\ calls[i].stream = <<>>
        /\ ~calls[i].abandoned
        /\ workflowPhase = "awaiting_supplier"

\* C10: when the delayed callback of a Replay's done signal runs in phase
\* awaiting_supplier, it sets ActionMode to supplier_response and does not
\* offer the quick actions.
C10_AwaitingSetsMode ==
    [][(/\ doneTimers # <<>>
        /\ doneTimers' = Tail(doneTimers)
        /\ Head(doneTimers).op = "replay"
        /\ workflowPhase = "awaiting_supplier")
       => (actionMode' = "supplier_response" /\ showPostActions' = showPostActions)]_vars


\* C11: whenever the session id is "new", the phase is initial and the intent
\* is null.
C11_NewImpliesInitial ==
    sessionInfo.id = "new"
    => (workflowPhase = "initial" /\ sessionInfo.intent = "null")

\* C12: at most one remote call is in flight at any time.
C12_OneCallInFlight ==
    Len(calls) <= 1

\* C13: a chunk read from a stream whose session was abandoned by a new chat
\* appends nothing to the Timeline and leaves SessionState alone.
C13_AbandonedStreamIgnored ==
    [][\A i \in DOMAIN calls :
         (/\ calls[i].abandoned
          /\ i \in DOMAIN calls'
          /\ calls'[i].pos > calls[i].pos)
         => (messages' = messages /\ sessionInfo' = sessionInfo)]_vars

\* C14: the step that starts a new chat ends with id "new", phase initial,
\* intent and confidence null, ActionMode none and a Timeline of exactly one
\* greeting entry, whatever the state it starts from.
C14_ResetToSentinel ==
    [][nresets' = nresets + 1
       => /\ sessionInfo'.id = "new"
          /\ sessionInfo'.intent = "null"
          /\ sessionInfo'.confidence = "null"
          /\ workflowPhase' = "initial"
          /\ actionMode' = "null"
          /\ Len(messages') = 1
          /\ messages'[1].role = "assistant"
          /\ messages'[1].type = "greeting"]_vars

\* a new chat started after a Replay in session A has ended
C14_Witness ==
    /\ nresets = 1
    /\ \E k \in DOMAIN requests : requests[k].op = "replay" /\ requests[k].session = "A"
    /\ Len(requests) = 2
    /\ calls = <<>>
    /\ sessionInfo = NewSession
    /\ workflowPhase = "initial"
    /\ actionMode = "null"
    /\ messages = <<NewChatGreeting>>

\* a remote call fails: the request rejects, the response has a non-success
\* status and its text has settled, or the body fails while it is read
CallFailure(i) == ResponseReject(i) \/ ErrorText(i) \/ ReadError(i)

\* C15: the step in which a remote call fails ends that call and clears the
\* in-flight flag, and leaves the input area or the quick-action panel on
\* display, so that the next submission is accepted.
C15_FailureKeepsUsable ==
    [][\A i \in 1..MaxCalls :
         CallFailure(i)
         => /\ ~isLoading'
            /\ Len(calls') = Len(calls) - 1
            /\ (InputAreaShown' \/ PostActionsShown')]_vars

\* after a call that failed, a second submission was accepted and its remote
\* operation is in flight
C15_Witness ==
    /\ Len(requests) = 2
    /\ Len(calls) = 1
    /\ calls[1].pc = "request"
    /\ isLoading
    /\ Len(messages) = 4
    /\ messages[2].role = "user"
    /\ messages[3].role = "system"
    /\ messages[3].type = "error"
    /\ messages[4].role = "user"

\* C16: a page that shows a session other than "new" before any submission
\* has started to load the history and the state of that session.
C16_ResumptionLoads ==
    (requests = <<>> /\ nresets = 0 /\ sessionInfo.id # "new") => nloads > 0

RECURSIVE MessageEntries(_)
\* the Timeline entries of the message events of evs, in order
MessageEntries(evs) ==
    IF evs = <<>> THEN <<>>
    ELSE (IF Head(evs).kind = "data" /\ Truthy(Head(evs).payload.message)
          THEN <<[role |-> "assistant", content |-> Head(evs).payload.message,
                  step |-> Head(evs).payload.step, type |-> "response"]>>
          ELSE <<>>)
         \o MessageEntries(Tail(evs))

RECURSIVE SessionEvents(_)
\* the payloads of the data events of evs that carry a session_id, in order
SessionEvents(evs) ==
    IF evs = <<>> THEN <<>>
    ELSE (IF Head(evs).kind = "data" /\ Truthy(Head(evs).payload.session_id)
          THEN <<Head(evs).payload>> ELSE <<>>)
         \o SessionEvents(Tail(evs))

C18_ContinueHasSession ==
    \A k \in DOMAIN requests :
        requests[k].op = "continue" => requests[k].session # "new"

\* C19: while a Continue or a Replay call is in flight the session id is the
\* one it was submitted with, and no step of such a call changes it, whatever
\* the events of its stream carry.
C19_IdKeptByContinueReplay ==
    /\ [](\A i \in DOMAIN calls :
            (calls[i].op \in {"continue", "replay"} /\ ~calls[i].abandoned)
            => sessionInfo.id = calls[i].sessionInfo.id)
    /\ [][(/\ nresets' = nresets
           /\ calls' # calls
           /\ Len(calls') <= Len(calls)
           /\ \A i \in DOMAIN calls : calls[i].op \in {"continue", "replay"})
          => sessionInfo' = sessionInfo]_vars

\* a Continue call of session A has read a body whose events carry the
\* session ids A and B
C19_Witness ==
    \E i \in DOMAIN calls :
        /\ calls[i].op = "continue"
        /\ ~calls[i].abandoned
        /\ calls[i].pc = "read"
        /\ calls[i].stream = Render(<<LineS, LineT>>)
        /\ calls[i].pos = Len(calls[i].stream)
        /\ sessionInfo.id = "A"
        /\ sessionInfo.status = "active"

\* the step runs the oldest pending callback of a done event
DoneCallbackRuns == doneTimers # <<>> /\ doneTimers' = Tail(doneTimers)

\* the step runs a pending callback of a history hydration
HistoryCallbackRuns == histTimers > 0 /\ histTimers' = histTimers - 1

\* the step is the user's cancel of an action
UserCancels ==
    /\ CancelShown
    /\ inputMessage' = <<>>
    /\ calls' = calls /\ requests' = requests /\ messages' = messages
    /\ doneTimers' = doneTimers /\ histTimers' = histTimers

\* the quick-action flag goes from false to true
OfferRises == ~showPostActions /\ showPostActions'

RECURSIVE DoneCount(_)
\* the number of done events among evs
DoneCount(evs) ==
    IF evs = <<>> THEN 0
    ELSE (IF Head(evs).kind = "doneSignal" THEN 1 ELSE 0) + DoneCount(Tail(evs))

\* C20: every callback of a done event sets the quick-action flag, and the
\* flag is set by nothing but such a callback or a user action.
C20_OfferedOnlyAfterDone ==
    [][/\ DoneCallbackRuns => showPostActions'
       /\ OfferRises => (DoneCallbackRuns \/ UserCancels)]_vars

\* C20 (amended): a callback is scheduled by a done event and by nothing else,
\* one per event; it sets the quick-action flag if the call that decoded the
\* event was submitted in phase initial, and otherwise sets ActionMode to
\* supplier_response and leaves the flag alone; the flag is set only by such a
\* callback, by the callback of a history hydration, or by the user's cancel
\* in phase initial.
C20_OfferSources ==
    [][/\ doneTimers' # doneTimers /\ ~DoneCallbackRuns
          => \E i \in DOMAIN calls :
                /\ i \in DOMAIN calls'
                /\ calls'[i].pos > calls[i].pos
                /\ LET chunk == SubSeq(calls[i].stream, calls[i].pos + 1, calls'[i].pos)
                   IN  /\ DoneCount(ProcessChunk(chunk)) > 0
                       /\ Len(doneTimers') =
                              Len(doneTimers) + DoneCount(ProcessChunk(chunk))
                       /\ IsPrefix(doneTimers, doneTimers')
       /\ \A i \in DOMAIN calls :
             (i \in DOMAIN calls' /\ calls'[i].pos > calls[i].pos)
             => LET chunk == SubSeq(calls[i].stream, calls[i].pos + 1, calls'[i].pos)
                IN  Len(doneTimers') = Len(doneTimers) + DoneCount(ProcessChunk(chunk))
       /\ DoneCallbackRuns
          => IF Head(doneTimers).workflowPhase = "initial"
             THEN showPostActions' /\ actionMode' = actionMode
             ELSE showPostActions' = showPostActions /\ actionMode' = "supplier_response"
       /\ OfferRises
          => \/ DoneCallbackRuns /\ Head(doneTimers).workflowPhase = "initial"
             \/ HistoryCallbackRuns
             \/ UserCancels /\ workflowPhase = "initial"]_vars

\* the quick actions are on offer after the done callback of a Start call,
\* no history having been loaded
C20_Witness ==
    /\ nloads = 0
    /\ nresets = 0
    /\ Len(requests) = 1
    /\ calls = <<>>
    /\ doneTimers = <<>>
    /\ showPostActions
    /\ PostActionsShown

RECURSIVE LastUserIndex(_)
\* the position of the last user entry of msgs, 0 if there is none
LastUserIndex(msgs) ==
    IF msgs = <<>> THEN 0
    ELSE IF Last(msgs).role = "user" THEN Len(msgs)
    ELSE LastUserIndex(SubSeq(msgs, 1, Len(msgs) - 1))

\* the entries appended since the last submission
EntriesOfTurn == SubSeq(messages, LastUserIndex(messages) + 1, Len(messages))

\* C21: when a call has read its body to the end, the entries appended since
\* its submission are exactly one per data event of the body that carries a
\* message, in the order of the body; a body without data events appended none.
C21_EntryPerMessageEvent ==
    \A i \in DOMAIN calls :
        (/\ calls[i].pc = "read"
         /\ calls[i].pos = Len(calls[i].stream)
         /\ ~calls[i].abandoned)
        => EntriesOfTurn = MessageEntries(ProcessChunk(calls[i].stream))

\* C23: a cancel in ActionMode replay or supplier_response leaves ActionMode
\* none if the phase is initial and supplier_response otherwise, and changes
\* neither the phase, SessionState nor the Timeline.
C23_CancelTransition ==
    [][(CancelAction /\ actionMode \in {"replay", "supplier_response"})
       => /\ actionMode' = IF workflowPhase = "initial"
                           THEN "null" ELSE "supplier_response"
          /\ workflowPhase' = workflowPhase
          /\ sessionInfo' = sessionInfo
          /\ messages' = messages]_vars

\* a Replay call is in flight, its response has set the phase to
\* awaiting_supplier, and the user has cancelled: ActionMode is supplier_response
C23_Witness ==
    /\ Len(requests) = 2
    /\ requests[2].op = "replay"
    /\ Len(calls) = 1
    /\ calls[1].op = "replay"
    /\ workflowPhase = "awaiting_supplier"
    /\ actionMode = "supplier_response"

\* C24: once the phase is awaiting_supplier, no step but the start of a new
\* chat takes it back to initial.
C24_PhaseIrreversible ==
    [][workflowPhase = "awaiting_supplier"
       => (workflowPhase' = "awaiting_supplier" \/ nresets' = nresets + 1)]_vars

\* the phase set by a Replay is still awaiting_supplier after the Replay call
\* and a Continue call have ended and the quick-action flag was set
C24_Witness ==
    /\ nresets = 0
    /\ Len(requests) = 3
    /\ requests[2].op = "replay"
    /\ requests[3].op = "continue"
    /\ calls = <<>>
    /\ showPostActions
    /\ actionMode = "null"
    /\ workflowPhase = "awaiting_supplier"

\* C26: after a new chat was started and before the next submission, ActionMode
\* is none and the quick-action flag is false, whatever callbacks of the
\* previous session are still pending.
C26_ResetSilencesCallbacks ==
    (nresets > 0 /\ LastUserIndex(messages) = 0)
    => (actionMode = "null" /\ ~showPostActions)

\* C27: where the user does not cancel, an ActionMode of supplier_response at
\* the end of a call submitted in mode none was set by the delayed callback of
\* that call's done signal; the cleanup of the call keeps it, so that the mode
\* after the turn is the same whether the callback ran before or after the
\* cleanup.
C27_CallbackModeKept ==
    [][\A i \in DOMAIN calls :
         (/\ Len(calls') < Len(calls)
          /\ calls[i].actionMode = "null"
          /\ calls[i].workflowPhase = "awaiting_supplier"
          /\ actionMode = "supplier_response")
         => actionMode' = "supplier_response"]_vars

\* the step in which call i appends entries to the Timeline
CallAppends(i) ==
    /\ (\E n \in 1..MaxBody : ReadChunk(i, n)) \/ CallFailure(i)
    /\ messages' # messages

\* C28: a submission appends its user entry in the step that issues the remote
\* operation; the entries a call produces are appended after its user entry and
\* before the user entry of the next submission, that is, while no later
\* submission has been accepted.
C28_TurnOrder ==
    [][/\ requests' # requests
          => (/\ Len(messages') = Len(messages) + 1
              /\ IsPrefix(messages, messages')
              /\ Last(messages').role = "user")
       /\ \A i \in 1..MaxCalls :
             CallAppends(i)
             => /\ IsPrefix(messages, messages')
                /\ i = Len(calls)
                /\ ~calls[i].abandoned => LastUserIndex(messages) > 0]_vars

\* C29: when the byte source fails after part of the body was read, the step
\* keeps the Timeline as it was and appends exactly one system entry of
\* category error, keeps SessionState, and clears the in-flight flag.
C29_PartialStreamFailure ==
    [][\A i \in 1..MaxCalls :
         (ReadError(i) /\ calls[i].pos > 0)
         => /\ messages' = Append(messages, Last(messages'))
            /\ Last(messages').role = "system"
            /\ Last(messages').type = "error"
            /\ sessionInfo' = sessionInfo
            /\ ~isLoading']_vars

\* a Start call failed after two message events and the session fields were
\* decoded: both entries, then one error entry; the session is A
C29_Witness ==
    /\ Len(requests) = 1
    /\ nresets = 0
    /\ calls = <<>>
    /\ ~isLoading
    /\ Len(messages) = 5
    /\ messages[2].role = "user"
    /\ messages[3].content = "M1"
    /\ messages[4].content = "M2"
    /\ messages[5].role = "system"
    /\ messages[5].type = "error"
    /\ sessionInfo.id = "A"
    /\ sessionInfo.intent = "quote_request"

\* C30: with no submission made, no resumption in flight and the session still
\* "new" (no resumption has completed), the Timeline holds the greeting only,
\* the phase is initial and the in-flight flag is false: a resumption that
\* failed left nothing behind.
C30_ResumptionAllOrNothing ==
    (requests = <<>> /\ loads = <<>> /\ sessionInfo.id = "new")
    => /\ messages \in {<<Greeting>>, <<NewChatGreeting>>}
       /\ workflowPhase = "initial"
       /\ ~isLoading

\* C22: a hydration of a history list of n records appends n entries in list
\* order, each with role assistant, category response and the record's step
\* and message, and with a timestamp earlier than the time of the hydration
\* and later than the timestamp of the entry before it.
C22_HydratedEntries ==
    [][\A log \in HistoryLogs :
         HydrateStamped(log)
         => /\ Len(sEntries') = Len(sEntries) + Len(log)
            /\ IsPrefix(sEntries, sEntries')
            /\ \A k \in 1..Len(log) :
                  LET entry == sEntries'[Len(sEntries) + k] IN
                  /\ entry.role = "assistant"
                  /\ entry.type = "response"
                  /\ entry.step = log[k].step
                  /\ entry.content = log[k].message
                  /\ entry.timestamp < sNow
                  /\ k > 1 => sEntries'[Len(sEntries) + k - 1].timestamp
                                  < entry.timestamp]_vars

\* a history of two records was hydrated after a submission: two entries after
\* the user entry, in list order, the first stamped before the second
C22_Witness ==
    /\ sHydrations = 1
    /\ Len(sEntries) = 4
    /\ sEntries[2].role = "user"
    /\ sEntries[3].content = "found 8"
    /\ sEntries[3].id = <<"history_", 0, 0>>
    /\ sEntries[4].content = "quote ready"
    /\ sEntries[4].id = <<"history_", 0, 1>>
    /\ sEntries[3].timestamp < sEntries[4].timestamp
    /\ sEntries[4].timestamp < sNow

\* C25: no two entries of the Timeline have the same id.
C25_UniqueIds ==
    \A a, b \in DOMAIN sEntries : a # b => sEntries[a].id # sEntries[b].id

====
